---- MODULE Spec2Model ----
(***************************************************************************)
(* State-machine model of road-core/rag-content:                           *)
(*   - lightspeed_rag_content.document_processor.DocumentProcessor         *)
(*   - lightspeed_rag_content.metadata_processor.MetadataProcessor         *)
(*   - scripts/common_embeddings.py FileMetadataProcessor                  *)
(*   - the runs of scripts/generate_embeddings*.py                         *)
(* The llama-index loader, splitter, embedding model and vector store are  *)
(* external collaborators: what they return (or that they raise) is an     *)
(* input of the action that calls them.                                    *)
(***************************************************************************)
EXTENDS Integers, Sequences, FiniteSets, TLC

VARIABLES
    live,                \* TRUE once DocumentProcessor.__init__ has returned an instance
    config,              \* the instance's public attributes (chunk_size, ..., table_name)
    good_nodes,          \* self._good_nodes
    num_embedded_files,  \* self._num_embedded_files
    start_time,          \* self._start_time
    settings,            \* self._settings (embedding_dimension, storage_context)
    Settings,            \* the process-wide llama-index Settings object
    environ,             \* os.environ entries written by __init__
    handles,             \* number of vector-store handles created so far
    store,               \* nodes held by the vector store behind storage_context
    persisted,           \* the index artifact last persisted to a directory
    sidecar,             \* the metadata.json last written
    clock,               \* time.time()
    lastCall,            \* trace of the most recent DocumentProcessor call
    history,             \* what loader and splitter returned to each completed process()
    resolverRuns,        \* number of _get_settings() runs that returned
    saves,               \* number of save() calls made
    ops,                 \* number of process() and save() calls made
    nodes_in,            \* validator harness: the sequence handed to the filter
    nodes_out,           \* validator harness: the sequence the filter returned
    processed_urls,      \* FileMetadataProcessor.processed_urls
    LOG,                 \* records emitted on the metadata_processor logger
    lastPopulate,        \* trace of the most recent populate()/file_metadata_func() call
    mpCalls,             \* number of populate()/file_metadata_func() calls made
    run,                 \* one run of a generate_embeddings script: position and locals
    title_call,          \* a call of get_file_title: the file, and what the call gave
    ping_call            \* a call of ping_url: what requests.get does, and what the call gave

vars == << live, config, good_nodes, num_embedded_files, start_time, settings,
           Settings, environ, handles, store, persisted, sidecar, clock, lastCall,
           history, resolverRuns, saves, ops, nodes_in, nodes_out, processed_urls, LOG,
           lastPopulate, mpCalls, run, title_call, ping_call >>

dpVars == << live, config, good_nodes, num_embedded_files, start_time, settings,
             Settings, environ, handles, store, persisted, sidecar, clock, lastCall,
             history, resolverRuns, saves, ops >>

filterVars == << nodes_in, nodes_out >>

mpVars == << processed_urls, LOG, lastPopulate, mpCalls >>

runVars == << run >>

helperVars == << title_call, ping_call >>

-----------------------------------------------------------------------------
(* Bounds of the model *)

MaxTextLen == 3        \* longest node text of the validator harness
MaxFilterLen == 2      \* longest node sequence of the validator harness
MaxOps == 3            \* process() and save() calls made on one DocumentProcessor
MaxPopulate == 2       \* populate() calls per metadata processor
MaxFileLen == 5        \* longest file given to get_file_title on its own
MaxInstances == 2      \* DocumentProcessor instances constructed in one Python process

-----------------------------------------------------------------------------
(* Sequences *)

RECURSIVE SeqsUpTo(_, _)
SeqsUpTo(S, n) ==
    IF n = 0 THEN { << >> }
    ELSE LET shorter == SeqsUpTo(S, n - 1)
         IN  shorter \cup { Append(s, x) : s \in { t \in shorter : Len(t) = n - 1 }, x \in S }

Range(s) == { s[i] : i \in 1..Len(s) }

-----------------------------------------------------------------------------
(* Nodes and the node validator *)

Chars == { "a", " " }

\* str.isspace() of one character
IsSpace(c) == c \in { " ", "\t", "\n", "\r", "\f" }

Texts == SeqsUpTo(Chars, MaxTextLen)

\* A node: isTextNode is the outcome of isinstance(node, TextNode)
Node(isText, text) == [ isTextNode |-> isText, text |-> text ]

Nodes == { Node(k, t) : k \in BOOLEAN, t \in Texts }

\* DocumentProcessor._got_whitespace: scan the characters, return at the first space
RECURSIVE GotWhitespaceFrom(_, _)
GotWhitespaceFrom(text, i) ==
    IF i > Len(text) THEN FALSE
    ELSE IF IsSpace(text[i]) THEN TRUE
    ELSE GotWhitespaceFrom(text, i + 1)

\* A variant of _got_whitespace with a fault: every text is said to hold a space
got_whitespace_Always(text) == TRUE

got_whitespace(text) == GotWhitespaceFrom(text, 1)

\* A variant of the condition with a fault: the type is not looked at
KeepNode_NoTypeCheck(node) == got_whitespace(node.text)

\* The condition of the if in _filter_out_invalid_nodes
KeepNode(node) == node.isTextNode /\ got_whitespace(node.text)

\* DocumentProcessor._filter_out_invalid_nodes: append the kept nodes to a fresh list
RECURSIVE FilterLoop(_, _, _)
FilterLoop(nodes, i, good) ==
    IF i > Len(nodes) THEN good
    ELSE IF KeepNode(nodes[i]) THEN FilterLoop(nodes, i + 1, Append(good, nodes[i]))
    ELSE FilterLoop(nodes, i + 1, good)

\* A variant of lines 132-136 with a fault: a kept node is inserted at the head
RECURSIVE FilterLoop_Insert(_, _, _)
FilterLoop_Insert(nodes, i, good) ==
    IF i > Len(nodes) THEN good
    ELSE IF KeepNode(nodes[i]) THEN FilterLoop_Insert(nodes, i + 1, << nodes[i] >> \o good)
    ELSE FilterLoop_Insert(nodes, i + 1, good)

filter_out_invalid_nodes_Reversed(nodes) == FilterLoop_Insert(nodes, 1, << >>)

filter_out_invalid_nodes(nodes) == FilterLoop(nodes, 1, << >>)

-----------------------------------------------------------------------------
(* Values *)

None == { }
Some(x) == { x }

\* Constructor calls the model makes:
\* << chunk_size, chunk_overlap, model_name, embeddings_model_dir, num_workers,
\*    vector_store_type, table_name >>
ConstructorArgs ==
    { << 380, 0, "all-mpnet-base-v2", "./embeddings_model", 0, "faiss", "table_name" >>,
      << 380, 0, "all-mpnet-base-v2", "./embeddings_model", -1, "faiss", "table_name" >>,
      << 512, 50, "all-mpnet-base-v2", "./embeddings_model", 10, "postgres", "docs" >>,
      << 380, 0, "all-mpnet-base-v2", "./embeddings_model", 10, "nonexisting", "table_name" >> }

\* len(Settings.embed_model.get_text_embedding("random text")): decided by the model
EmbeddingDims == { 768 }

\* Arguments of save()
SaveArgs == { << "X", "D" >>, << "Y", "E" >> }

\* Seconds that pass between two readings of time.time()
Elapsed == { 0, 1 }

\* The nodes the splitter returns in the session model: two valid ones (to tell
\* order apart), a text node without whitespace and a non-text node
NodeA == Node(TRUE, << "a", " " >>)
NodeB == Node(TRUE, << " ", "a" >>)
NodeW == Node(TRUE, << "a", "a" >>)
NodeI == Node(FALSE, << "a", " " >>)

\* What loader and splitter return to one process() call:
\* << number of documents, nodes >>
Loads ==
    { << 0, << >> >>,
      << 1, << NodeA, NodeB >> >>,
      << 2, << NodeB, NodeW, NodeA >> >>,
      << 3, << NodeI, NodeA >> >>,
      << 2, << NodeW, NodeI >> >> }

NoConfig ==
    [ chunk_size |-> 0, chunk_overlap |-> 0, model_name |-> "", embeddings_model_dir |-> "",
      num_workers |-> None, vector_store_type |-> "", table_name |-> "" ]

NoSettings == [ embedding_dimension |-> 0, storage_context |-> None ]

NoCall == [ op |-> "none", args |-> << >>, subcalls |-> << >>, raised |-> None ]

\* script: the script run; pc: where the run is; unreachables: the script's local
\* of that name; stdout: what print_unreachable_docs_warning printed;
\* unreachable_docs: the processed documents whose URL was unreachable;
\* documents, runbook_documents: how many documents the loader returned for the
\* docs and for the runbooks; good_nodes: the script's list of that name (in
\* generate_embeddings_openshift.py the DocumentProcessor's); indexed: the nodes
\* the index was built from; total_embedded_files: the sidecar's entry
NoRun ==
    [ script |-> "", pc |-> "idle", unreachables |-> 0, stdout |-> << >>,
      unreachable_docs |-> 0, documents |-> 0, runbook_documents |-> 0,
      good_nodes |-> << >>, indexed |-> None, total_embedded_files |-> None ]

\* error: the exception open() or readline() raises, if any; content: the
\* characters of the file; state: "none", "pending", "returned" or "raised"
NoTitleCall ==
    [ error |-> None, content |-> << >>, state |-> "none", title |-> << >>,
      raised |-> None ]

\* http: what requests.get does; state as above
NoPingCall ==
    [ http |-> [ raises |-> None, status_code |-> 0 ], state |-> "none",
      value |-> FALSE, raised |-> None ]

NoPopulate ==
    [ op |-> "none", variant |-> "", file_path |-> << >>, read |-> None, http |-> None,
      ping |-> None, raised |-> None, result |-> None ]

-----------------------------------------------------------------------------
(* DocumentProcessor.__init__ and _get_settings *)

\* A variant of lines 65-66 with a fault: num_workers is kept as given
InitAttributes_KeepsWorkers(cs, co, mn, dir, nw, vst, tn) ==
    [ chunk_size |-> cs, chunk_overlap |-> co, model_name |-> mn,
      embeddings_model_dir |-> dir, num_workers |-> Some(nw),
      vector_store_type |-> vst, table_name |-> tn ]

\* __init__, lines 57-66: the attributes, with a non-positive num_workers turned to None
InitAttributes(cs, co, mn, dir, nw, vst, tn) ==
    [ chunk_size |-> cs, chunk_overlap |-> co, model_name |-> mn,
      embeddings_model_dir |-> dir,
      num_workers |-> IF nw <= 0 THEN None ELSE Some(nw),
      vector_store_type |-> vst, table_name |-> tn ]

\* _get_settings, lines 85-90: what it writes to the process-wide Settings
GlobalSettings(cfg) ==
    [ chunk_size |-> Some(cfg.chunk_size), chunk_overlap |-> Some(cfg.chunk_overlap),
      embed_model |-> Some(cfg.embeddings_model_dir), llm |-> Some("MockLLM") ]

\* A variant of lines 95-117 with a fault: an unknown backend falls through to
\* the last backend instead of raising
KnownBackend_Fallback(vst) == TRUE

\* _get_settings, lines 95-117: the closed backend selection
KnownBackend(vst) == vst \in { "faiss", "postgres" }

\* _get_settings, lines 96-97 and 107-115: the vector store created for a backend;
\* h is the identity of the new handle
VectorStore(cfg, dim, h) ==
    IF cfg.vector_store_type = "faiss"
    THEN [ handle |-> h, kind |-> "FaissVectorStore", embed_dim |-> dim, table_name |-> "" ]
    ELSE [ handle |-> h, kind |-> "PGVectorStore", embed_dim |-> dim,
           table_name |-> cfg.table_name ]

\* _get_settings, line 117
UnknownBackendError(vst) ==
    [ type |-> "RuntimeError", msg |-> << "Unknown vector store type: ", vst >> ]

\* DocumentProcessor(...): __init__ with its call of _get_settings
Construct(cs, co, mn, dir, nw, vst, tn, dim) ==
    LET cfg == InitAttributes(cs, co, mn, dir, nw, vst, tn)
        args == << cs, co, mn, dir, nw, vst, tn >>
    IN  /\ ~live
        /\ environ' = [ HF_HOME |-> Some(dir), TRANSFORMERS_OFFLINE |-> Some("1") ]
        /\ Settings' = GlobalSettings(cfg)
        /\ IF KnownBackend(vst)
           THEN /\ live' = TRUE
                /\ config' = cfg
                /\ good_nodes' = << >>
                /\ num_embedded_files' = 0
                /\ start_time' = clock
                /\ handles' = handles + 1
                /\ settings' = [ embedding_dimension |-> dim,
                                 storage_context |-> Some(VectorStore(cfg, dim, handles + 1)) ]
                /\ store' = << >>
                /\ resolverRuns' = resolverRuns + 1
                /\ lastCall' = [ op |-> "__init__", args |-> args,
                                 subcalls |-> << [ name |-> "_get_settings" ] >>,
                                 raised |-> None ]
           ELSE /\ lastCall' = [ op |-> "__init__", args |-> args,
                                 subcalls |-> << [ name |-> "_get_settings" ] >>,
                                 raised |-> Some(UnknownBackendError(vst)) ]
                /\ UNCHANGED << live, config, good_nodes, num_embedded_files, start_time,
                                handles, settings, store, resolverRuns >>
        /\ UNCHANGED << persisted, sidecar, clock, history, saves, ops >>
        /\ UNCHANGED << filterVars, mpVars, runVars, helperVars >>

-----------------------------------------------------------------------------
(* DocumentProcessor.process *)

\* What the loader and the splitter do in one process() call
LoadOutcomes == { "ok", "load_raises", "split_raises" }

\* process, lines 176-185: the loader call, with the instance's worker count
LoadCall(cfg) == [ name |-> "load_data", num_workers |-> cfg.num_workers ]

\* process, line 186: the splitter is the text_splitter of the process-wide Settings
SplitCall(global) ==
    [ name |-> "get_nodes_from_documents", chunk_size |-> global.chunk_size,
      chunk_overlap |-> global.chunk_overlap ]

\* Variants of line 187 with a fault: the new nodes put in front, the new nodes
\* taking the place of the list, and the nodes added unfiltered
ExtendGoodNodes_Prepend(good, nodes) == filter_out_invalid_nodes(nodes) \o good

ExtendGoodNodes_Replace(good, nodes) == filter_out_invalid_nodes(nodes)

ExtendGoodNodes_Unfiltered(good, nodes) == good \o nodes

\* process, line 187: self._good_nodes.extend(self._filter_out_invalid_nodes(nodes))
ExtendGoodNodes(good, nodes) == good \o filter_out_invalid_nodes(nodes)

\* A variant of line 190 with a fault: the nodes are counted, not the documents
CountEmbeddedFiles_Nodes(count, ndocs, nodes) == count + Len(nodes)

\* process, line 190: self._num_embedded_files += len(docs)
CountEmbeddedFiles(count, ndocs, nodes) == count + ndocs

\* A variant of process with a fault: every call resolves the settings again
ProcessFrame_Resolves ==
    /\ resolverRuns' = resolverRuns + 1
    /\ handles' = handles + 1
    /\ settings' = [ settings EXCEPT
                       !.storage_context =
                           Some(VectorStore(config, settings.embedding_dimension, handles + 1)) ]
    /\ UNCHANGED << live, config, start_time, Settings, environ, store, persisted, sidecar,
                    clock, saves >>

\* process, lines 168-190: process assigns self._good_nodes and
\* self._num_embedded_files and nothing else; it makes no call of _get_settings,
\* _save_index or _save_metadata
ProcessFrame ==
    UNCHANGED << live, config, start_time, settings, Settings, environ, handles, store,
                 persisted, sidecar, clock, resolverRuns, saves >>

\* A variant of lines 185-190 with a fault: the documents are counted as soon as
\* the loader has returned, before the splitter is called
ProcessEffect_CountsBeforeSplit(good, count, ndocs, nodes, outcome) ==
    [ good_nodes |-> IF outcome = "ok" THEN ExtendGoodNodes(good, nodes) ELSE good,
      num_embedded_files |->
          IF outcome = "load_raises" THEN count ELSE CountEmbeddedFiles(count, ndocs, nodes) ]

\* process, lines 185-190: what a call has done to self._good_nodes and
\* self._num_embedded_files when it ends. The loader (line 185) and the splitter
\* (line 186) come before both assignments, so a call in which one of them raises
\* has assigned nothing; otherwise line 187 extends the list and line 190 counts
ProcessEffect(good, count, ndocs, nodes, outcome) ==
    IF outcome = "ok"
    THEN [ good_nodes |-> ExtendGoodNodes(good, nodes),
           num_embedded_files |-> CountEmbeddedFiles(count, ndocs, nodes) ]
    ELSE [ good_nodes |-> good, num_embedded_files |-> count ]

\* process(docs_dir, metadata, ...): the loader returns ndocs documents and the
\* splitter returns nodes, unless one of them raises
process(ndocs, nodes, outcome) ==
    /\ live
    /\ ops < MaxOps
    /\ ops' = ops + 1
    /\ LET effect == ProcessEffect(good_nodes, num_embedded_files, ndocs, nodes, outcome)
       IN  /\ good_nodes' = effect.good_nodes
           /\ num_embedded_files' = effect.num_embedded_files
    /\ IF outcome = "ok"
       THEN /\ history' = Append(history, [ ndocs |-> ndocs, nodes |-> nodes ])
            /\ lastCall' = [ op |-> "process", args |-> << >>,
                             subcalls |-> << LoadCall(config), SplitCall(Settings),
                                             [ name |-> "_filter_out_invalid_nodes" ] >>,
                             raised |-> None ]
       ELSE /\ lastCall' = [ op |-> "process", args |-> << >>,
                             subcalls |->
                                 IF outcome = "load_raises" THEN << LoadCall(config) >>
                                 ELSE << LoadCall(config), SplitCall(Settings) >>,
                             raised |-> Some([ type |-> "Exception", msg |-> << outcome >> ]) ]
            /\ UNCHANGED history
    /\ ProcessFrame
    /\ UNCHANGED << filterVars, mpVars, runVars, helperVars >>

-----------------------------------------------------------------------------
(* DocumentProcessor.save *)

SaveOutcomes == { "ok", "build_raises", "persist_raises", "metadata_raises" }

\* A variant of lines 157-160 with a fault: the backend type is written as given
VectorDbLabel_RawType(vst) == vst

\* _save_metadata, lines 157-160
VectorDbLabel(vst) ==
    IF vst = "faiss" THEN "faiss.IndexFlatIP" ELSE "PGVectorStore"

\* _save_metadata, lines 152-164: the metadata dictionary
Metadata(cfg, stg, started, now, count, index) ==
    ( "execution-time" :> now - started ) @@
    ( "llm" :> "None" ) @@
    ( "embedding-model" :> cfg.model_name ) @@
    ( "index-id" :> index ) @@
    ( "vector-db" :> VectorDbLabel(cfg.vector_store_type) ) @@
    ( "embedding-dimension" :> stg.embedding_dimension ) @@
    ( "chunk" :> cfg.chunk_size ) @@
    ( "overlap" :> cfg.chunk_overlap ) @@
    ( "total-embedded-files" :> count )

\* _save_metadata, line 165: os.path.join(persist_folder, "metadata.json")
MetadataPath(persist_folder) == << persist_folder, "metadata.json" >>

\* _save_index, lines 143-146: VectorStoreIndex(self._good_nodes, storage_context=...)
\* embeds the nodes it is given and adds them to the vector store of the handle
BuildIndex(held, good) == held \o good

\* _save_index, lines 147-148: the artifact persisted to persist_folder
IndexArtifact(index, persist_folder, good, held) ==
    [ index_id |-> index, persist_dir |-> persist_folder, nodes |-> good, vectors |-> held ]

\* A variant of lines 194-195 with a fault: the sidecar is written first
SaveCalls_MetadataFirst(index, output_dir, outcome) ==
    LET idx == [ name |-> "_save_index", index |-> index, persist_folder |-> output_dir ]
        md  == [ name |-> "_save_metadata", index |-> index, persist_folder |-> output_dir ]
    IN  IF outcome \in { "build_raises", "persist_raises" } THEN << md, idx >> ELSE << md, idx >>

\* save, lines 194-195: the calls save makes, in order, up to the one that raises
SaveCalls(index, output_dir, outcome) ==
    LET idx == [ name |-> "_save_index", index |-> index, persist_folder |-> output_dir ]
        md  == [ name |-> "_save_metadata", index |-> index, persist_folder |-> output_dir ]
    IN  IF outcome \in { "build_raises", "persist_raises" } THEN << idx >> ELSE << idx, md >>

\* A variant of save with a fault: the session starts over once it is saved
SaveFrame_StartsOver ==
    /\ good_nodes' = << >>
    /\ num_embedded_files' = 0
    /\ UNCHANGED << live, config, start_time, settings, Settings, environ, handles,
                    history, resolverRuns >>

\* save, _save_index and _save_metadata, lines 141-166 and 192-195: they read the
\* instance's attributes and assign none of them
SaveFrame ==
    UNCHANGED << live, config, good_nodes, num_embedded_files, start_time, settings,
                 Settings, environ, handles, history, resolverRuns >>

\* save(index, output_dir); dt is the time the call takes up to its reading of
\* time.time() in _save_metadata
save(index, output_dir, outcome, dt) ==
    /\ live
    /\ ops < MaxOps
    /\ ops' = ops + 1
    /\ saves' = saves + 1
    /\ clock' = clock + dt
    /\ store' = IF outcome = "build_raises" THEN store ELSE BuildIndex(store, good_nodes)
    /\ persisted' =
           IF outcome \in { "build_raises", "persist_raises" } THEN persisted
           ELSE Some(IndexArtifact(index, output_dir, good_nodes, store'))
    /\ sidecar' =
           IF outcome = "ok"
           THEN Some([ path |-> MetadataPath(output_dir),
                       content |-> Metadata(config, settings, start_time, clock',
                                            num_embedded_files, index) ])
           ELSE sidecar
    /\ lastCall' = [ op |-> "save", args |-> << index, output_dir >>,
                     subcalls |-> SaveCalls(index, output_dir, outcome),
                     raised |-> IF outcome = "ok" THEN None
                                ELSE Some([ type |-> "Exception", msg |-> << outcome >> ]) ]
    /\ SaveFrame
    /\ UNCHANGED << filterVars, mpVars, runVars, helperVars >>

-----------------------------------------------------------------------------
(* The session specification *)

\* No DocumentProcessor has been constructed
InitSession ==
    /\ live = FALSE
    /\ config = NoConfig
    /\ good_nodes = << >>
    /\ num_embedded_files = 0
    /\ start_time = 0
    /\ settings = NoSettings
    /\ Settings = [ chunk_size |-> None, chunk_overlap |-> None, embed_model |-> None,
                    llm |-> None ]
    /\ environ = [ HF_HOME |-> None, TRANSFORMERS_OFFLINE |-> None ]
    /\ handles = 0
    /\ store = << >>
    /\ persisted = None
    /\ sidecar = None
    /\ clock = 0
    /\ lastCall = NoCall
    /\ history = << >>
    /\ resolverRuns = 0
    /\ saves = 0
    /\ ops = 0

\* The validator has not been called
InitFilter ==
    /\ nodes_in = << >>
    /\ nodes_out = << >>

\* No metadata has been populated
InitMetadata ==
    /\ processed_urls = << >>
    /\ LOG = << >>
    /\ lastPopulate = NoPopulate
    /\ mpCalls = 0

\* No script is running
InitRun == run = NoRun

\* Neither get_file_title nor ping_url is being called on its own
InitHelpers ==
    /\ title_call = NoTitleCall
    /\ ping_call = NoPingCall

Init == InitSession /\ InitFilter /\ InitMetadata /\ InitRun /\ InitHelpers

DoConstruct ==
    \E a \in ConstructorArgs, dim \in EmbeddingDims :
        Construct(a[1], a[2], a[3], a[4], a[5], a[6], a[7], dim)

DoProcess ==
    \E load \in Loads, outcome \in LoadOutcomes : process(load[1], load[2], outcome)

DoSave ==
    \E a \in SaveArgs, outcome \in SaveOutcomes, dt \in Elapsed :
        save(a[1], a[2], outcome, dt)

Next == DoConstruct \/ DoProcess \/ DoSave

Spec == Init /\ [][Next]_vars

-----------------------------------------------------------------------------
(* A second DocumentProcessor in the same Python process *)

\* Constructor calls of another instance: chunk parameters unlike those of
\* ConstructorArgs
OtherConstructorArgs ==
    { << 256, 16, "all-mpnet-base-v2", "./embeddings_model", 0, "faiss", "table_name" >>,
      << 256, 16, "all-mpnet-base-v2", "./embeddings_model", 0, "nonexisting", "table_name" >> }

\* DocumentProcessor(...) once more, while the first instance is in use: the new
\* instance has attributes and a storage handle of its own, but __init__ and
\* _get_settings write os.environ and the process-wide Settings (lines 75-76 and
\* 85-90) before the backend is looked at.  lastCall keeps tracing the calls made
\* on the first instance.
ConstructOther(cs, co, mn, dir, nw, vst, tn, dim) ==
    LET cfg == InitAttributes(cs, co, mn, dir, nw, vst, tn)
    IN  /\ live
        /\ handles < MaxInstances
        /\ environ' = [ HF_HOME |-> Some(dir), TRANSFORMERS_OFFLINE |-> Some("1") ]
        /\ Settings' = GlobalSettings(cfg)
        /\ handles' = IF KnownBackend(vst) THEN handles + 1 ELSE handles
        /\ UNCHANGED << live, config, good_nodes, num_embedded_files, start_time, settings,
                        store, persisted, sidecar, clock, lastCall, history, resolverRuns,
                        saves, ops >>
        /\ UNCHANGED << filterVars, mpVars, runVars, helperVars >>

DoConstructOther ==
    \E a \in OtherConstructorArgs, dim \in EmbeddingDims :
        ConstructOther(a[1], a[2], a[3], a[4], a[5], a[6], a[7], dim)

NextShared == Next \/ DoConstructOther

SpecShared == Init /\ [][NextShared]_vars

-----------------------------------------------------------------------------
(* MetadataProcessor: get_file_title, ping_url, url_function *)

\* str.rstrip(cs) and str.lstrip(cs): drop every trailing (leading) character of cs
RECURSIVE RStrip(_, _)
RStrip(str, cs) ==
    IF str # << >> /\ str[Len(str)] \in cs THEN RStrip(SubSeq(str, 1, Len(str) - 1), cs)
    ELSE str

RECURSIVE LStrip(_, _)
LStrip(str, cs) ==
    IF str # << >> /\ Head(str) \in cs THEN LStrip(Tail(str), cs)
    ELSE str

\* file.readline(): the characters up to and including the first newline
RECURSIVE ReadLineFrom(_, _)
ReadLineFrom(content, i) ==
    IF i > Len(content) THEN content
    ELSE IF content[i] = "\n" THEN SubSeq(content, 1, i)
    ELSE ReadLineFrom(content, i + 1)

readline(content) == ReadLineFrom(content, 1)

\* A variant of line 40 with a fault: only OSError and its subclasses are caught
IsException_OSErrorOnly(exc) == exc \in { "OSError", "FileNotFoundError", "PermissionError" }

\* except Exception (line 40): every class but those deriving from BaseException alone
IsException(exc) == exc \notin { "KeyboardInterrupt", "SystemExit", "GeneratorExit" }

\* A variant of line 39 with a fault: the newline that ends the line is kept
get_file_title_KeepsNewline(read) ==
    IF read = None THEN << >>
    ELSE LET content == CHOOSE c \in read : TRUE
         IN  LStrip(readline(content), { "#", " " })

\* get_file_title, lines 34-42; read is None when open() or readline() raises
get_file_title(read) ==
    IF read = None THEN << >>
    ELSE LET content == CHOOSE c \in read : TRUE
         IN  LStrip(RStrip(readline(content), { "\n" }), { "#", " " })

\* What requests.get(url, timeout=30) does: a response with a status code, or an
\* exception
Response(code) == [ raises |-> None, status_code |-> code ]
Raises(exc) == [ raises |-> Some(exc), status_code |-> 0 ]

HttpOutcomes ==
    { Response(200), Response(404), Raises("ConnectionError"), Raises("ValueError") }

\* A variant of line 49 with a fault: only the class itself is caught, not its
\* subclasses
IsRequestException_ExactClass(exc) == exc = "RequestException"

\* The classes line 49 catches: requests.exceptions.RequestException and its subclasses
IsRequestException(exc) ==
    exc \in { "RequestException", "ConnectionError", "Timeout", "HTTPError" }

\* A variant of line 48 with a fault: every status code below 400 counts as live
ping_url_AnySuccess(http) ==
    IF http.raises = None
    THEN [ raised |-> None, value |-> http.status_code < 400 ]
    ELSE IF \A exc \in http.raises : IsRequestException(exc)
    THEN [ raised |-> None, value |-> FALSE ]
    ELSE [ raised |-> http.raises, value |-> FALSE ]

\* ping_url, lines 44-50: the value returned, or the exception that leaves it
ping_url(http) ==
    IF http.raises = None
    THEN [ raised |-> None, value |-> http.status_code = 200 ]
    ELSE IF \A exc \in http.raises : IsRequestException(exc)
    THEN [ raised |-> None, value |-> FALSE ]
    ELSE [ raised |-> http.raises, value |-> FALSE ]

\* The metadata processor variants: the class itself, which does not supply
\* url_function, and the two variants of generate_embeddings_openshift.py
Variants == { "MetadataProcessor", "OpenshiftDocsMetadata", "OpenshiftRunbooksMetadata" }

\* A variant of url_function of the class itself with a fault: it returns a URL
\* instead of raising
SuppliesUrlFunction_Placeholder(variant) == TRUE

\* url_function of the class itself raises NotImplementedError (lines 85-88)
SuppliesUrlFunction(variant) == variant # "MetadataProcessor"

\* A file path is << directory, rest, suffix >>, their concatenation being the string
RootDir(variant) == IF variant = "OpenshiftDocsMetadata" THEN "/docs" ELSE "/runbooks"

\* str.removeprefix(root) and str.removesuffix(suffix)
removeprefix(path, root) == IF path[1] = root THEN << "", path[2], path[3] >> ELSE path
removesuffix(path, suffix) == IF path[3] = suffix THEN << path[1], path[2], "" >> ELSE path

\* url_function of the two variants: the pieces of the URL
url_function(variant, file_path) ==
    IF variant = "OpenshiftDocsMetadata"
    THEN << "https://docs.openshift.com/container-platform/", "4.15" >>
         \o removesuffix(removeprefix(file_path, RootDir(variant)), "txt") \o << "html" >>
    ELSE << "https://github.com/openshift/runbooks/blob/master" >>
         \o removeprefix(file_path, RootDir(variant))

\* The files populate() is called on: the path and what reading the file gives
Files ==
    { [ path |-> << "/docs", "/install/intro.", "txt" >>,
        read |-> Some(<< "#", " ", "T", "i", "\n", "b" >>) ],
      [ path |-> << "/runbooks", "/alerts/KubeDown.", "md" >>, read |-> None ] }

-----------------------------------------------------------------------------
(* MetadataProcessor.populate *)

\* populate, lines 64-68
Document(file_path, title, docs_url) ==
    [ file_path |-> file_path, title |-> title, url |-> docs_url ]

\* A variant of lines 70-81 with a fault: the warning is logged whatever ping_url
\* returned
LogRecords_AlwaysWarns(reachable, document) ==
    << [ level |-> "WARNING", template |-> << "URL not reachable", ": %(url)s" >>,
         args |-> document ],
       [ level |-> "DEBUG", template |-> << "Metadata populated for", ": %(title)s" >>,
         args |-> document ] >>

\* populate, lines 70-81: the records logged
LogRecords(reachable, document) ==
    ( IF ~reachable
      THEN << [ level |-> "WARNING", template |-> << "URL not reachable", ": %(url)s" >>,
                args |-> document ] >>
      ELSE << >> )
    \o << [ level |-> "DEBUG", template |-> << "Metadata populated for", ": %(title)s" >>,
            args |-> document ] >>

\* A variant of line 83 with a fault: the document dictionary is returned
PopulateResult_Document(file_path, title, docs_url, reachable) ==
    [ file_path |-> file_path, title |-> title, url |-> docs_url, reachable |-> reachable ]

\* populate, line 83
PopulateResult(file_path, title, docs_url, reachable) ==
    [ docs_url |-> docs_url, title |-> title ]

\* What a call leaves in lastPopulate
PopulateTrace(op, variant, file, http, ping, raised, result) ==
    [ op |-> op, variant |-> variant, file_path |-> file.path, read |-> file.read,
      http |-> http, ping |-> ping, raised |-> raised, result |-> result ]

\* populate(file_path) of a MetadataProcessor variant
populate(variant, file, http) ==
    /\ mpCalls < MaxPopulate
    /\ mpCalls' = mpCalls + 1
    /\ IF ~SuppliesUrlFunction(variant)
       THEN /\ lastPopulate' = PopulateTrace("populate", variant, file, None, None,
                                             Some("NotImplementedError"), None)
            /\ LOG' = LOG
       ELSE LET docs_url == url_function(variant, file.path)
                title == get_file_title(file.read)
                document == Document(file.path, title, docs_url)
                ping == ping_url(http)
            IN  IF ping.raised # None
                THEN /\ lastPopulate' = PopulateTrace("populate", variant, file, Some(http),
                                                      None, ping.raised, None)
                     /\ LOG' = LOG
                ELSE /\ LOG' = LOG \o LogRecords(ping.value, document)
                     /\ lastPopulate' =
                            PopulateTrace("populate", variant, file, Some(http),
                                          Some(ping.value), None,
                                          Some(PopulateResult(file.path, title, docs_url,
                                                              ping.value)))
    /\ UNCHANGED processed_urls
    /\ UNCHANGED << dpVars, filterVars, helperVars >>

-----------------------------------------------------------------------------
(* scripts/common_embeddings.py: FileMetadataProcessor.file_metadata_func *)

\* A variant of lines 77-84 with a fault: the flag records reachability
FileDocument_FlagInverted(file_path, title, docs_url, reachable) ==
    [ file_path |-> file_path, title |-> title, docs_url |-> docs_url,
      unreachable |-> reachable ]

\* file_metadata_func, lines 77-84
FileDocument(file_path, title, docs_url, reachable) ==
    [ file_path |-> file_path, title |-> title, docs_url |-> docs_url,
      unreachable |-> ~reachable ]

\* n_unreachable_urls, lines 60-63
n_unreachable_urls(log) == Cardinality({ i \in 1..Len(log) : log[i].unreachable })

\* file_metadata_func(file_path) of a FileMetadataProcessor variant
file_metadata_func(variant, file, http) ==
    /\ mpCalls < MaxPopulate
    /\ mpCalls' = mpCalls + 1
    /\ IF ~SuppliesUrlFunction(variant)
       THEN /\ lastPopulate' = PopulateTrace("file_metadata_func", variant, file, None, None,
                                             Some("NotImplementedError"), None)
            /\ processed_urls' = processed_urls
       ELSE LET docs_url == url_function(variant, file.path)
                title == get_file_title(file.read)
                ping == ping_url(http)
            IN  IF ping.raised # None
                THEN /\ lastPopulate' = PopulateTrace("file_metadata_func", variant, file,
                                                      Some(http), None, ping.raised, None)
                     /\ processed_urls' = processed_urls
                ELSE /\ processed_urls' =
                            Append(processed_urls,
                                   FileDocument(file.path, title, docs_url, ping.value))
                     /\ lastPopulate' =
                            PopulateTrace("file_metadata_func", variant, file, Some(http),
                                          Some(ping.value), None,
                                          Some(PopulateResult(file.path, title, docs_url,
                                                              ping.value)))
    /\ UNCHANGED LOG
    /\ UNCHANGED << dpVars, filterVars, helperVars >>

-----------------------------------------------------------------------------
(* The metadata specification *)

DoPopulate ==
    \E variant \in Variants, file \in Files, http \in HttpOutcomes :
        populate(variant, file, http) /\ UNCHANGED << run, helperVars >>

DoFileMetadataFunc ==
    \E variant \in Variants, file \in Files, http \in HttpOutcomes :
        file_metadata_func(variant, file, http) /\ UNCHANGED << run, helperVars >>

NextMetadata == DoPopulate \/ DoFileMetadataFunc

SpecMetadata == Init /\ [][NextMetadata]_vars

-----------------------------------------------------------------------------
(* get_file_title and ping_url on their own: any file, any HTTP outcome *)

TitleChars == { "#", " ", "T", "\n" }

\* What open() and readline() raise: a missing file, a permission, an encoding
FileErrors == { "FileNotFoundError", "PermissionError", "UnicodeDecodeError" }

TitleCalls ==
    { [ error |-> None, content |-> c, state |-> "pending", title |-> << >>,
        raised |-> None ] : c \in SeqsUpTo(TitleChars, MaxFileLen) }
    \cup
    { [ error |-> Some(e), content |-> c, state |-> "pending", title |-> << >>,
        raised |-> None ] : e \in FileErrors, c \in { << >>, << "#", " ", "T", "\n" >> } }

\* The status codes of HTTP
StatusCodes == 100..599

\* What requests.get raises: its own exceptions, and one that is not of its family
RequestErrors ==
    { "RequestException", "ConnectionError", "Timeout", "HTTPError", "ValueError" }

PingCalls ==
    { [ http |-> h, state |-> "pending", value |-> FALSE, raised |-> None ] :
        h \in { Response(c) : c \in StatusCodes } \cup { Raises(e) : e \in RequestErrors } }

InitHelperCall ==
    /\ InitSession
    /\ InitFilter
    /\ InitMetadata
    /\ InitRun
    /\ \/ title_call \in TitleCalls /\ ping_call = NoPingCall
       \/ title_call = NoTitleCall /\ ping_call \in PingCalls

\* self.get_file_title(file_path)
CallGetFileTitle ==
    /\ title_call.state = "pending"
    /\ title_call' =
           IF title_call.error = None
           THEN [ title_call EXCEPT !.state = "returned",
                                    !.title = get_file_title(Some(title_call.content)) ]
           ELSE IF \A exc \in title_call.error : IsException(exc)
           THEN [ title_call EXCEPT !.state = "returned", !.title = get_file_title(None) ]
           ELSE [ title_call EXCEPT !.state = "raised", !.raised = title_call.error ]
    /\ UNCHANGED ping_call
    /\ UNCHANGED << dpVars, filterVars, mpVars, runVars >>

\* self.ping_url(url)
CallPingUrl ==
    /\ ping_call.state = "pending"
    /\ LET r == ping_url(ping_call.http)
       IN  ping_call' = [ ping_call EXCEPT
                            !.state = IF r.raised = None THEN "returned" ELSE "raised",
                            !.value = r.value,
                            !.raised = r.raised ]
    /\ UNCHANGED title_call
    /\ UNCHANGED << dpVars, filterVars, mpVars, runVars >>

NextHelpers == CallGetFileTitle \/ CallPingUrl

SpecHelpers == InitHelperCall /\ [][NextHelpers]_vars

-----------------------------------------------------------------------------
(* One run of a script: scripts/generate_embeddings.py,                      *)
(* scripts/generate_embeddings_openshift.py, scripts/generate_embeddings_openstack.py *)

Scripts ==
    { "generate_embeddings.py", "generate_embeddings_openshift.py",
      "generate_embeddings_openstack.py" }

\* from common_embeddings import (...): generate_embeddings_openstack.py imports
\* file_metadata_func, which common_embeddings.py defines only as a method of
\* FileMetadataProcessor, so its import raises ImportError
ImportsResolve(script) == script # "generate_embeddings_openstack.py"

\* generate_embeddings.py uses FileMetadataProcessor.file_metadata_func as the
\* loader's callback, generate_embeddings_openshift.py MetadataProcessor.populate
UsesFileMetadataProcessor(script) == script = "generate_embeddings.py"

\* The metadata processor of the document set being loaded
MetadataVariant(pc) ==
    IF pc = "docs" THEN "OpenshiftDocsMetadata" ELSE "OpenshiftRunbooksMetadata"

\* print_unreachable_docs_warning(n), common_embeddings.py lines 228-234
print_unreachable_docs_warning(n) ==
    << "WARNING:\n", "There were documents with ", n, " unreachable URLs, ",
       "grep the log for UNREACHABLE.\n", "Please update the plain text." >>

\* generate_embeddings_openshift.py goes through DocumentProcessor.process and
\* save, generate_embeddings.py through the functions of common_embeddings.py
UsesDocumentProcessor(script) == script = "generate_embeddings_openshift.py"

\* settings.text_splitter.get_nodes_from_documents(documents): no document, no
\* node; otherwise any of the node lists a load can give
SplitResults(ndocs) == IF ndocs = 0 THEN { << >> } ELSE { load[2] : load \in Loads }

\* The nodes of the docs: generate_embeddings.py line 99,
\* good_nodes = filter_out_invalid_nodes(nodes); in generate_embeddings_openshift.py
\* the first process() call on a new DocumentProcessor
DocsNodes(script, nodes) ==
    IF UsesDocumentProcessor(script)
    THEN ExtendGoodNodes(<< >>, nodes)
    ELSE filter_out_invalid_nodes(nodes)

\* The nodes of the runbooks: generate_embeddings.py line 111,
\* good_nodes.extend(runbook_nodes); in generate_embeddings_openshift.py the second
\* process() call
RunbookNodes(script, good, runbook_nodes) ==
    IF UsesDocumentProcessor(script)
    THEN ExtendGoodNodes(good, runbook_nodes)
    ELSE good \o runbook_nodes

\* metadata["total-embedded-files"]: generate_embeddings.py lines 117-118 pass
\* documents to save_metadata, which writes len(documents);
\* generate_embeddings_openshift.py writes the DocumentProcessor's counter
TotalEmbeddedFiles(script, documents, runbook_documents) ==
    IF UsesDocumentProcessor(script)
    THEN CountEmbeddedFiles(CountEmbeddedFiles(0, documents, << >>), runbook_documents, << >>)
    ELSE documents

\* The script starts: its imports, then its metadata processor for the docs
StartRun(script) ==
    /\ run.pc = "idle"
    /\ mpCalls = 0
    /\ run' = [ run EXCEPT !.script = script,
                           !.pc = IF ImportsResolve(script) THEN "docs" ELSE "ImportError" ]
    /\ UNCHANGED << dpVars, filterVars, mpVars, helperVars >>

\* The loader calls the metadata callback for one file of the document set; an
\* exception that leaves the callback ends the run
LoadFile(file, http) ==
    /\ run.pc \in { "docs", "runbooks" }
    /\ file.path[1] = RootDir(MetadataVariant(run.pc))
    /\ IF UsesFileMetadataProcessor(run.script)
       THEN file_metadata_func(MetadataVariant(run.pc), file, http)
       ELSE populate(MetadataVariant(run.pc), file, http)
    /\ run' = [ run EXCEPT
                  !.pc = IF lastPopulate'.raised # None THEN "aborted" ELSE @,
                  !.unreachable_docs = IF lastPopulate'.ping = Some(FALSE) THEN @ + 1 ELSE @,
                  !.documents =
                      IF lastPopulate'.raised = None /\ run.pc = "docs" THEN @ + 1 ELSE @,
                  !.runbook_documents =
                      IF lastPopulate'.raised = None /\ run.pc = "runbooks" THEN @ + 1 ELSE @ ]

\* generate_embeddings.py lines 94-100 and generate_embeddings_openshift.py lines
\* 83-86: the docs are loaded, split and filtered, the runbooks come next with a
\* new metadata processor
NextDocumentSet(nodes) ==
    /\ run.pc = "docs"
    /\ run' = [ run EXCEPT
                  !.pc = "runbooks",
                  !.good_nodes = DocsNodes(run.script, nodes),
                  !.unreachables = IF UsesFileMetadataProcessor(run.script)
                                   THEN n_unreachable_urls(processed_urls) ELSE @ ]
    /\ processed_urls' = << >>
    /\ UNCHANGED << LOG, lastPopulate, mpCalls >>
    /\ UNCHANGED << dpVars, filterVars, helperVars >>

\* generate_embeddings.py lines 106-121 and generate_embeddings_openshift.py line
\* 93: the runbooks are loaded and split, their nodes join the list, the index
\* and the metadata are saved and, in generate_embeddings.py, the notice is
\* printed when unreachables > 0
FinishRun(saved, runbook_nodes) ==
    /\ run.pc = "runbooks"
    /\ LET total == run.unreachables + n_unreachable_urls(processed_urls)
           good == RunbookNodes(run.script, run.good_nodes, runbook_nodes)
           files == TotalEmbeddedFiles(run.script, run.documents, run.runbook_documents)
           after == [ run EXCEPT
                        !.good_nodes = good,
                        !.pc = IF saved THEN "done" ELSE "aborted",
                        !.indexed = IF saved THEN Some(good) ELSE @,
                        !.total_embedded_files = IF saved THEN Some(files) ELSE @ ]
       IN  run' =
             IF UsesFileMetadataProcessor(run.script)
             THEN [ after EXCEPT
                      !.unreachables = total,
                      !.stdout = IF saved /\ total > 0
                                 THEN Append(@, print_unreachable_docs_warning(total))
                                 ELSE @ ]
             ELSE after
    /\ UNCHANGED << dpVars, filterVars, mpVars, helperVars >>

DoStartRun == \E script \in Scripts : StartRun(script)

DoLoadFile == \E file \in Files, http \in HttpOutcomes : LoadFile(file, http)

DoNextDocumentSet == \E nodes \in SplitResults(run.documents) : NextDocumentSet(nodes)

DoFinishRun ==
    \E saved \in BOOLEAN, runbook_nodes \in SplitResults(run.runbook_documents) :
        FinishRun(saved, runbook_nodes)

NextRun == DoStartRun \/ DoLoadFile \/ DoNextDocumentSet \/ DoFinishRun

SpecRun == Init /\ [][NextRun]_vars

-----------------------------------------------------------------------------
(* The node validator on its own: any sequence of nodes, filtered once *)

InitValidator ==
    /\ InitSession
    /\ InitMetadata
    /\ InitRun
    /\ InitHelpers
    /\ nodes_in \in SeqsUpTo(Nodes, MaxFilterLen)
    /\ nodes_out = << >>

\* self._filter_out_invalid_nodes(nodes)
ApplyFilter ==
    /\ lastCall.op = "none"
    /\ nodes_out' = filter_out_invalid_nodes(nodes_in)
    /\ nodes_in' = nodes_in
    /\ lastCall' = [ op |-> "_filter_out_invalid_nodes", args |-> << >>,
                     subcalls |-> << >>, raised |-> None ]
    /\ UNCHANGED << live, config, good_nodes, num_embedded_files, start_time, settings,
                    Settings, environ, handles, store, persisted, sidecar, clock, history,
                    resolverRuns, saves, ops >>
    /\ UNCHANGED << mpVars, runVars, helperVars >>

NextValidator == ApplyFilter

SpecValidator == InitValidator /\ [][NextValidator]_vars

-----------------------------------------------------------------------------
(* The validity policy and the sums, as the claims state them *)

\* A node is valid: a text node whose text holds a whitespace character
ValidNode(n) == n.isTextNode /\ \E i \in 1..Len(n.text) : IsSpace(n.text[i])

\* The valid nodes of a sequence, in their order
Survivors(nodes) == SelectSeq(nodes, ValidNode)

\* The survivors of every call of a history, one call after the other
RECURSIVE ConcatSurvivors(_)
ConcatSurvivors(h) ==
    IF h = << >> THEN << >>
    ELSE ConcatSurvivors(SubSeq(h, 1, Len(h) - 1)) \o Survivors(h[Len(h)].nodes)

\* The documents loaded over every call of a history
RECURSIVE SumDocs(_)
SumDocs(h) == IF h = << >> THEN 0 ELSE SumDocs(Tail(h)) + Head(h).ndocs

\* The most recent call was a save() whose index step went through
IndexSaved ==
    /\ lastCall.op = "save"
    /\ lastCall.raised \subseteq { [ type |-> "Exception", msg |-> << "metadata_raises" >> ] }

\* The most recent call was a save() that returned
SaveReturned == lastCall.op = "save" /\ lastCall.raised = None

-----------------------------------------------------------------------------
(* Claims about the DocumentProcessor session *)

\* C1: after any sequence of process() calls the accumulated node list is the
\* concatenation, in call order, of the valid nodes of each call, each call's nodes
\* in their arrival order; a save() that follows builds the index from exactly
\* these nodes, N1+N2 of them after two calls with N1 and N2 valid nodes.
C1_AccumulatesInCallOrder ==
    /\ good_nodes = ConcatSurvivors(history)
    /\ IndexSaved =>
           /\ persisted # None
           /\ \A idx \in persisted :
                  /\ idx.nodes = ConcatSurvivors(history)
                  /\ Len(history) = 2 =>
                         Len(idx.nodes) = Len(Survivors(history[1].nodes))
                                          + Len(Survivors(history[2].nodes))

C1_Witness ==
    /\ IndexSaved
    /\ saves = 1
    /\ Len(history) = 2
    /\ Survivors(history[1].nodes) # << >>
    /\ Survivors(history[2].nodes) # << >>
    /\ Survivors(history[1].nodes) # Survivors(history[2].nodes)
    /\ \E idx \in persisted : Len(idx.nodes) >= 3

\* C2: every process() call that returns adds the number of documents the loader
\* returned to the embedded-file counter, not the number of nodes; the counter is
\* the sum of the documents loaded over all calls, and a save() that follows writes
\* that sum as total-embedded-files (0 when process() was never called).
C2_CounterIsSumOfDocs ==
    /\ num_embedded_files = SumDocs(history)
    /\ SaveReturned =>
           /\ sidecar # None
           /\ \A md \in sidecar :
                  /\ md.content["total-embedded-files"] = SumDocs(history)
                  /\ history = << >> => md.content["total-embedded-files"] = 0

C2_Witness ==
    /\ SaveReturned
    /\ Len(history) = 2
    /\ history[1].ndocs # Len(history[1].nodes)
    /\ history[1].ndocs # Len(Survivors(history[1].nodes))
    /\ history[2].ndocs > 0
    /\ \E md \in sidecar :
           md.content["total-embedded-files"] = history[1].ndocs + history[2].ndocs

\* C4: in every reachable state every element of the accumulated node list is a
\* text node whose text holds a whitespace character, and so is every node save()
\* hands to the index builder.
C4_OnlyValidNodesAccumulated ==
    /\ \A i \in 1..Len(good_nodes) : ValidNode(good_nodes[i])
    /\ \A i \in 1..Len(store) : ValidNode(store[i])
    /\ \A idx \in persisted : \A i \in 1..Len(idx.nodes) : ValidNode(idx.nodes[i])

C4_Witness ==
    /\ IndexSaved
    /\ good_nodes # << >>
    /\ store # << >>
    /\ \E i \in 1..Len(history) :
           /\ \E j \in 1..Len(history[i].nodes) : ~history[i].nodes[j].isTextNode
    /\ \E i \in 1..Len(history) :
           /\ \E j \in 1..Len(history[i].nodes) :
                  history[i].nodes[j].isTextNode /\ ~ValidNode(history[i].nodes[j])

\* C5: constructing a DocumentProcessor with a backend type other than "faiss" or
\* "postgres" raises a configuration error whose message names the backend; no
\* instance results, no storage handle is created and no artifact is written.
C5_UnknownBackendRaises ==
    (lastCall.op = "__init__" /\ lastCall.args[6] \notin { "faiss", "postgres" }) =>
        /\ lastCall.raised # None
        /\ \A e \in lastCall.raised :
               /\ e.type = "RuntimeError"
               /\ e.msg[Len(e.msg)] = lastCall.args[6]
        /\ ~live
        /\ handles = 0
        /\ settings.storage_context = None
        /\ store = << >>
        /\ persisted = None
        /\ sidecar = None

C5_Witness ==
    /\ lastCall.op = "__init__"
    /\ lastCall.args[6] = "nonexisting"
    /\ lastCall.raised # None

\* C6: save(index_id, output_dir) makes the index step once and then the sidecar
\* step once, both with its own index_id and output_dir, index first; when the
\* index step raises, the sidecar is not written by that call and the exception
\* leaves save().
C6_SaveIndexThenMetadata ==
    [][ (lastCall'.op = "save" /\ ops' = ops + 1) =>
          LET c == lastCall'.subcalls
              indexRaised ==
                  \E e \in lastCall'.raised :
                      e.msg \in { << "build_raises" >>, << "persist_raises" >> }
          IN  /\ Len(c) >= 1
              /\ c[1] = [ name |-> "_save_index", index |-> lastCall'.args[1],
                          persist_folder |-> lastCall'.args[2] ]
              /\ IF indexRaised
                 THEN /\ Len(c) = 1
                      /\ sidecar' = sidecar
                      /\ persisted' = persisted
                 ELSE /\ Len(c) = 2
                      /\ c[2] = [ name |-> "_save_metadata", index |-> lastCall'.args[1],
                                  persist_folder |-> lastCall'.args[2] ]
                      /\ \A idx \in persisted' :
                             /\ idx.index_id = lastCall'.args[1]
                             /\ idx.persist_dir = lastCall'.args[2]
                      /\ lastCall'.raised = None =>
                             \A md \in sidecar' :
                                 /\ md.path[1] = lastCall'.args[2]
                                 /\ md.content["index-id"] = lastCall'.args[1] ]_vars

C6_Witness ==
    /\ lastCall.op = "save"
    /\ \E e \in lastCall.raised : e.msg = << "persist_raises" >>
    /\ saves = 2
    /\ sidecar # None
    /\ \A md \in sidecar : md.path[1] # lastCall.args[2]

\* C7, as the claim states it: once save() has been called no later operation
\* changes the accumulated node list or the embedded-file counter.
C7_SavedIsTerminal ==
    [][ saves > 0 =>
          /\ good_nodes' = good_nodes
          /\ num_embedded_files' = num_embedded_files ]_vars

\* C7, amended: save() is not a guarded terminal state.  save() itself never
\* changes the accumulated node list or the counter, and after a save() the only
\* operation that changes them is a further process(), which is accepted and
\* appends its valid nodes and adds its documents exactly as before the save().
C7_OnlyProcessChangesAfterSave ==
    [][ /\ lastCall'.op = "save" =>
              good_nodes' = good_nodes /\ num_embedded_files' = num_embedded_files
        /\ (saves > 0 /\ << good_nodes, num_embedded_files >>' #
                             << good_nodes, num_embedded_files >>) =>
              /\ lastCall'.op = "process"
              /\ lastCall'.raised = None
              /\ Len(history') = Len(history) + 1
              /\ good_nodes' = good_nodes \o Survivors(history'[Len(history')].nodes)
              /\ num_embedded_files' =
                     num_embedded_files + history'[Len(history')].ndocs ]_vars

C7_Witness ==
    /\ saves > 0
    /\ lastCall.op = "process"
    /\ lastCall.raised = None
    /\ persisted # None
    /\ \A idx \in persisted : Len(good_nodes) > Len(idx.nodes)
    /\ \A md \in sidecar : num_embedded_files > md.content["total-embedded-files"]
    /\ sidecar # None

\* C8: the settings resolver runs once per DocumentProcessor, during construction;
\* no process() or save() call runs it again or changes the instance's chunk size,
\* chunk overlap, embedding dimension or storage handle.
C8_ResolvedOnceAndImmutable ==
    [][ /\ live' => resolverRuns' = 1
        /\ ~live' => resolverRuns' = 0
        /\ live =>
              /\ resolverRuns' = resolverRuns
              /\ config' = config
              /\ settings' = settings
              /\ handles' = handles ]_vars

C8_Witness ==
    /\ live
    /\ resolverRuns = 1
    /\ ops = MaxOps
    /\ saves > 0
    /\ history # << >>
    /\ store # << >>

\* C18: the sidecar a save(index_id, output_dir) that returns has written is at
\* output_dir/metadata.json and holds exactly the keys execution-time, llm,
\* embedding-model, index-id, vector-db, embedding-dimension, chunk, overlap and
\* total-embedded-files; llm is "None", embedding-model the constructor's model
\* name, index-id the index_id of the call, vector-db "faiss.IndexFlatIP" for the
\* backend faiss and "PGVectorStore" for postgres, chunk and overlap the
\* constructor's chunk size and overlap.
C18_SidecarKeysAndValues ==
    SaveReturned =>
        /\ sidecar # None
        /\ \A md \in sidecar :
               /\ md.path = << lastCall.args[2], "metadata.json" >>
               /\ DOMAIN md.content =
                      { "execution-time", "llm", "embedding-model", "index-id", "vector-db",
                        "embedding-dimension", "chunk", "overlap", "total-embedded-files" }
               /\ md.content["llm"] = "None"
               /\ md.content["embedding-model"] = config.model_name
               /\ md.content["index-id"] = lastCall.args[1]
               /\ config.vector_store_type = "faiss" =>
                      md.content["vector-db"] = "faiss.IndexFlatIP"
               /\ config.vector_store_type = "postgres" =>
                      md.content["vector-db"] = "PGVectorStore"
               /\ md.content["chunk"] = config.chunk_size
               /\ md.content["overlap"] = config.chunk_overlap

C18_Witness ==
    /\ SaveReturned
    /\ saves = 2
    /\ config.vector_store_type = "postgres"
    /\ lastCall.args = << "Y", "E" >>
    /\ \E md \in sidecar :
           /\ md.path = << "E", "metadata.json" >>
           /\ md.content["vector-db"] = "PGVectorStore"
           /\ md.content["chunk"] = 512
           /\ md.content["overlap"] = 50

\* C20: a non-positive num_workers given to the constructor makes every
\* process() call of the instance call the loader with the worker count None; a
\* positive num_workers is passed to the loader unchanged on every process() call.
C20_WorkersNormalisedOnceAndPassedOn ==
    [][ /\ (lastCall'.op = "__init__" /\ lastCall'.raised = None /\ ~live) =>
              config'.num_workers =
                  IF lastCall'.args[5] <= 0 THEN None ELSE Some(lastCall'.args[5])
        /\ (live /\ ops' = ops + 1) =>
              /\ config'.num_workers = config.num_workers
              /\ lastCall'.op = "process" =>
                     /\ lastCall'.subcalls[1].name = "load_data"
                     /\ lastCall'.subcalls[1].num_workers = config.num_workers ]_vars

C20_Witness ==
    /\ lastCall.op = "process"
    /\ ops = 3
    /\ saves = 1
    /\ config.num_workers = None
    /\ lastCall.subcalls[1] = [ name |-> "load_data", num_workers |-> None ]

\* A positive worker count reaches the loader on a later process() call
C20_WitnessPositive ==
    /\ lastCall.op = "process"
    /\ ops = 2
    /\ lastCall.subcalls[1] = [ name |-> "load_data", num_workers |-> Some(10) ]

\* C23: every process() call of a DocumentProcessor has the splitter split with
\* the chunk size and chunk overlap the instance was constructed with, the values
\* its save() writes to the sidecar, also when another DocumentProcessor with
\* other chunk parameters has been constructed since.
C23_SplitsWithOwnChunkParameters ==
    [][ (lastCall'.op = "process" /\ ops' = ops + 1 /\ Len(lastCall'.subcalls) >= 2) =>
          /\ lastCall'.subcalls[2].name = "get_nodes_from_documents"
          /\ lastCall'.subcalls[2].chunk_size = Some(config.chunk_size)
          /\ lastCall'.subcalls[2].chunk_overlap = Some(config.chunk_overlap) ]_vars

\* A save() that returned is followed at once by a save() with the same
\* arguments that returns
SavedAgain ==
    /\ SaveReturned
    /\ saves' = saves + 1
    /\ lastCall'.op = "save"
    /\ lastCall'.raised = None
    /\ lastCall'.args = lastCall.args

\* C24: a second save(index_id, output_dir) with no process() call in between
\* persists an index with the same entries as the first, each accumulated node
\* exactly once in the storage handle, and a sidecar that differs from the first
\* in execution-time only.
C24_SecondSaveOverwritesConsistently ==
    [][ SavedAgain =>
          /\ store' = good_nodes
          /\ \A first \in persisted, second \in persisted' :
                 second.nodes = first.nodes /\ second.vectors = first.vectors
          /\ \A first \in sidecar, second \in sidecar' :
                 /\ second.path = first.path
                 /\ \A k \in DOMAIN second.content \ { "execution-time" } :
                        second.content[k] = first.content[k] ]_vars

\* The part of C24 that holds: the second sidecar differs from the first in
\* execution-time only, and the second index is built from the same node list
C24_SecondSidecarDiffersInExecutionTime ==
    [][ SavedAgain =>
          /\ \A first \in persisted, second \in persisted' : second.nodes = first.nodes
          /\ \A first \in sidecar, second \in sidecar' :
                 /\ second.path = first.path
                 /\ DOMAIN second.content = DOMAIN first.content
                 /\ \A k \in DOMAIN second.content \ { "execution-time" } :
                        second.content[k] = first.content[k] ]_vars

\* A step is one call of process()
ProcessCalled == lastCall'.op = "process" /\ ops' = ops + 1

\* The names of the calls the most recent operation made, in their order
CallNames(call) == [ i \in 1..Len(call.subcalls) |-> call.subcalls[i].name ]

\* C29: a process() call in which the loader or the splitter raises leaves the
\* accumulated node list and the embedded-file counter as they were; a call
\* changes them only when loading, splitting and filtering have all gone through,
\* and then it appends the valid nodes and adds the number of documents.
C29_ProcessIsAllOrNothing ==
    [][ ProcessCalled =>
          /\ lastCall'.raised # None =>
                 /\ good_nodes' = good_nodes
                 /\ num_embedded_files' = num_embedded_files
                 /\ CallNames(lastCall') \in
                        { << "load_data" >>, << "load_data", "get_nodes_from_documents" >> }
          /\ lastCall'.raised = None =>
                 /\ CallNames(lastCall') = << "load_data", "get_nodes_from_documents",
                                              "_filter_out_invalid_nodes" >>
                 /\ Len(history') = Len(history) + 1
                 /\ good_nodes' = good_nodes \o Survivors(history'[Len(history')].nodes)
                 /\ num_embedded_files' = num_embedded_files + history'[Len(history')].ndocs
       ]_vars

\* A process() call whose splitter raised, on a DocumentProcessor that had
\* accumulated nodes and counted documents before
C29_Witness ==
    /\ lastCall.op = "process"
    /\ lastCall.raised # None
    /\ CallNames(lastCall) = << "load_data", "get_nodes_from_documents" >>
    /\ good_nodes # << >>
    /\ num_embedded_files > 0

\* A step is one call of save()
SaveCalled == lastCall'.op = "save" /\ saves' = saves + 1

\* C30: save(), whether it returns or raises, leaves the accumulated node list,
\* the embedded-file counter, the start time and the chunk and backend
\* configuration as they were and builds the index from the whole accumulated
\* list; process() builds no index, persists none and writes no sidecar.
C30_SaveReadsAndProcessAccumulates ==
    [][ /\ SaveCalled =>
              /\ good_nodes' = good_nodes
              /\ num_embedded_files' = num_embedded_files
              /\ start_time' = start_time
              /\ config' = config
              /\ settings' = settings
              /\ IndexSaved' => \A artifact \in persisted' : artifact.nodes = good_nodes
        /\ ProcessCalled =>
              /\ store' = store
              /\ persisted' = persisted
              /\ sidecar' = sidecar
              /\ \A i \in 1..Len(lastCall'.subcalls) :
                     lastCall'.subcalls[i].name \notin { "_save_index", "_save_metadata" }
       ]_vars

\* A save() that persisted the index of a non-empty node list and then raised
\* while writing the sidecar
C30_Witness ==
    /\ lastCall.op = "save"
    /\ lastCall.raised # None
    /\ persisted # None
    /\ sidecar = None
    /\ good_nodes # << >>
    /\ num_embedded_files > 0

-----------------------------------------------------------------------------
(* Claims about the node validator *)

\* C3: a node given to the validator is kept if and only if it is a text node
\* and its text holds at least one whitespace character; a non-text node is
\* rejected whatever its content, and a text node without whitespace is rejected.
C3_KeptIffTextWithWhitespace ==
    lastCall.op = "_filter_out_invalid_nodes" =>
        \A i \in 1..Len(nodes_in) :
            LET n == nodes_in[i]
                kept == n \in Range(nodes_out)
                hasSpace == \E j \in 1..Len(n.text) : IsSpace(n.text[j])
            IN  /\ kept <=> (n.isTextNode /\ hasSpace)
                /\ ~n.isTextNode => ~kept
                /\ (n.isTextNode /\ ~hasSpace) => ~kept

C3_Witness ==
    /\ lastCall.op = "_filter_out_invalid_nodes"
    /\ Len(nodes_in) = 2
    /\ Len(nodes_out) = 1
    /\ \E i \in 1..2 :
           /\ ~nodes_in[i].isTextNode
           /\ \E j \in 1..Len(nodes_in[i].text) : IsSpace(nodes_in[i].text[j])

\* The tokens of a text: its maximal runs of non-whitespace characters
Tokens(text) ==
    Cardinality({ i \in 1..Len(text) :
                    ~IsSpace(text[i]) /\ (i = 1 \/ IsSpace(text[i - 1])) })

\* The validator has been applied
Filtered == lastCall.op = "_filter_out_invalid_nodes"

\* C21, as the claim states it: no node that passes the validator has empty text
\* or single-token text; every accepted node carries multi-token text.
C21_AcceptedNodesAreMultiToken ==
    Filtered => \A i \in 1..Len(nodes_out) : Tokens(nodes_out[i].text) >= 2

\* C21, amended: no node that passes the validator has empty text or text without
\* a whitespace character, but whitespace is only a proxy for multi-token text:
\* every text node whose text holds a whitespace character passes, also when its
\* text is whitespace only or a single word with leading or trailing whitespace.
C21_AcceptedNodesHoldWhitespace ==
    Filtered =>
        /\ \A i \in 1..Len(nodes_out) :
               /\ nodes_out[i].text # << >>
               /\ \E j \in 1..Len(nodes_out[i].text) : IsSpace(nodes_out[i].text[j])
        /\ \A i \in 1..Len(nodes_in) :
               (/\ nodes_in[i].isTextNode
                /\ Tokens(nodes_in[i].text) <= 1
                /\ \E j \in 1..Len(nodes_in[i].text) : IsSpace(nodes_in[i].text[j]))
               => nodes_in[i] \in Range(nodes_out)

C21_Witness ==
    /\ Filtered
    /\ Len(nodes_out) = 2
    /\ Tokens(nodes_out[1].text) = 0
    /\ Tokens(nodes_out[2].text) = 1
    /\ nodes_out[2].text = << " ", "a", " " >>

\* C22: the result of the validator is the subsequence of its input made of
\* exactly the valid nodes, in their input order and each as often as it occurs
\* in the input; the call leaves the input sequence and its nodes unchanged and
\* does not touch the accumulated node list.
C22_FilterPreservesOrderAndInput ==
    [][ lastCall'.op = "_filter_out_invalid_nodes" =>
          /\ nodes_out' = Survivors(nodes_in)
          /\ nodes_in' = nodes_in
          /\ good_nodes' = good_nodes ]_vars

C22_Witness ==
    /\ Filtered
    /\ Len(nodes_in) = 2
    /\ nodes_out = nodes_in
    /\ nodes_out[1] # nodes_out[2]
    /\ good_nodes = << >>

-----------------------------------------------------------------------------
(* Claims about the metadata processor *)

\* The records a step appended to the log
NewLogRecords == SubSeq(LOG', Len(LOG) + 1, Len(LOG'))

\* The most recent call returned
PopulateReturned == lastPopulate.op # "none" /\ lastPopulate.raised = None

\* C9: populate(path) returns a mapping with exactly the two keys docs_url and
\* title, docs_url being url_function(path) and title get_file_title(path), whether
\* the URL is reachable or not; neither the reachability flag nor the file path
\* is part of it.
C9_PopulateReturnsUrlAndTitle ==
    /\ PopulateReturned =>
           /\ lastPopulate.result # None
           /\ \A r \in lastPopulate.result :
                  /\ DOMAIN r = { "docs_url", "title" }
                  /\ r["docs_url"] = url_function(lastPopulate.variant, lastPopulate.file_path)
                  /\ r["title"] = get_file_title(lastPopulate.read)
    /\ lastPopulate.ping # None => PopulateReturned

C9_Witness ==
    /\ mpCalls = 2
    /\ PopulateReturned
    /\ lastPopulate.op = "populate"
    /\ lastPopulate.ping = Some(FALSE)
    /\ \E r \in lastPopulate.result : r["title"] = << "T", "i" >>

\* C10: a populate() call in which ping_url returns false emits exactly one
\* warning-level log entry, and it contains "URL not reachable"; a call in which
\* ping_url returns true emits no warning-level entry.
C10_OneWarningWhenUnreachable ==
    [][ (lastPopulate'.op = "populate" /\ mpCalls' = mpCalls + 1) =>
          LET new == NewLogRecords
              warnings == { i \in 1..Len(new) : new[i].level = "WARNING" }
          IN  /\ SubSeq(LOG', 1, Len(LOG)) = LOG
              /\ lastPopulate'.ping = Some(FALSE) =>
                     /\ Cardinality(warnings) = 1
                     /\ \A i \in warnings : "URL not reachable" \in Range(new[i].template)
              /\ lastPopulate'.ping = Some(TRUE) => warnings = { } ]_vars

C10_Witness ==
    /\ mpCalls = 2
    /\ lastPopulate.op = "populate"
    /\ lastPopulate.ping = Some(TRUE)
    /\ Len(LOG) = 3
    /\ LOG[1].level = "WARNING"

\* The exceptions of the requests library: RequestException and its subclasses
NetworkError(exc) == exc \in { "RequestException", "ConnectionError", "Timeout", "HTTPError" }

\* The most recent call was populate() on a variant that supplies url_function
PopulateCalled == lastPopulate.op = "populate" /\ SuppliesUrlFunction(lastPopulate.variant)

\* C11, as the claim states it: on a variant whose url_function returns, whatever
\* exception the HTTP request or the title file read raises, populate() returns
\* {docs_url, title} with the defaults (unreachable, empty title).
C11_NeverRaisesOnNetworkOrFileError ==
    PopulateCalled =>
        /\ lastPopulate.raised = None
        /\ \A r \in lastPopulate.result : DOMAIN r = { "docs_url", "title" }
        /\ lastPopulate.result # None
        /\ (\A h \in lastPopulate.http : h.raises # None) => lastPopulate.ping = Some(FALSE)
        /\ lastPopulate.read = None => \A r \in lastPopulate.result : r["title"] = << >>

\* C11, amended: a title file that cannot be read never makes populate() raise and
\* gives the empty title; an HTTP request that raises an exception of the requests
\* family (RequestException or a subclass) makes the URL unreachable and populate()
\* still returns {docs_url, title}; any other exception raised by the HTTP request
\* is not caught and leaves populate(), which then returns nothing.
C11_DegradesOnRequestAndFileErrors ==
    PopulateCalled =>
        \A h \in lastPopulate.http :
            IF \E exc \in h.raises : ~NetworkError(exc)
            THEN /\ lastPopulate.raised = h.raises
                 /\ lastPopulate.result = None
            ELSE /\ lastPopulate.raised = None
                 /\ lastPopulate.result # None
                 /\ \A r \in lastPopulate.result :
                        /\ DOMAIN r = { "docs_url", "title" }
                        /\ lastPopulate.read = None => r["title"] = << >>
                 /\ h.raises # None => lastPopulate.ping = Some(FALSE)

C11_Witness ==
    /\ PopulateCalled
    /\ lastPopulate.read = None
    /\ lastPopulate.http = Some(Raises("ConnectionError"))
    /\ lastPopulate.ping = Some(FALSE)
    /\ \E r \in lastPopulate.result : r["title"] = << >>

\* C12: on a variant that does not supply url_function, populate() raises
\* NotImplementedError and returns no URL, before any reachability check is made,
\* any diagnostic is logged or any record is appended to the log; so does
\* file_metadata_func() of the scripts.
C12_AbstractVariantFailsLoudly ==
    [][ (mpCalls' = mpCalls + 1 /\ lastPopulate'.variant = "MetadataProcessor") =>
          /\ lastPopulate'.raised = Some("NotImplementedError")
          /\ lastPopulate'.result = None
          /\ lastPopulate'.http = None
          /\ lastPopulate'.ping = None
          /\ LOG' = LOG
          /\ processed_urls' = processed_urls ]_vars

C12_Witness ==
    /\ mpCalls = 2
    /\ lastPopulate.variant = "MetadataProcessor"
    /\ lastPopulate.raised = Some("NotImplementedError")
    /\ lastPopulate.http = None
    /\ Len(LOG) = 2

\* The records of a log whose URL was unreachable, counted one by one
RECURSIVE CountUnreachable(_)
CountUnreachable(log) ==
    IF log = << >> THEN 0
    ELSE CountUnreachable(Tail(log)) + (IF Head(log).unreachable THEN 1 ELSE 0)

\* A step is one call of populate() or file_metadata_func()
MetadataCall == mpCalls' = mpCalls + 1

-----------------------------------------------------------------------------
(* Claims about a run of a script *)

\* The notice of a run: none when no processed document had an unreachable URL,
\* one with their number otherwise
NoticeAsClaimed ==
    run.stdout = IF run.unreachable_docs > 0
                 THEN << print_unreachable_docs_warning(run.unreachable_docs) >>
                 ELSE << >>

\* C14: at the end of a run the notice has been emitted exactly once if at least
\* one processed document, of the docs or of the runbooks, had an unreachable URL
\* and not at all otherwise, and the count it reports is the number of these
\* documents.
C14_SingleNoticeIffUnreachable == run.pc = "done" => NoticeAsClaimed

\* The part of C14 that generate_embeddings.py keeps
GenerateEmbeddingsNotice ==
    (run.pc = "done" /\ run.script = "generate_embeddings.py") => NoticeAsClaimed

\* A run of generate_embeddings.py that saved its index and its sidecar
GenerateEmbeddingsSaved ==
    /\ run.script = "generate_embeddings.py"
    /\ run.pc = "done"
    /\ run.indexed # None
    /\ run.total_embedded_files # None

\* C27: in a run of generate_embeddings.py every node passed to save_index, of the
\* docs or of the runbooks, is a text node with a whitespace character.
C27_IndexedNodesAreValid ==
    GenerateEmbeddingsSaved =>
        \A indexed \in run.indexed : \A i \in 1..Len(indexed) : ValidNode(indexed[i])

\* The parts of C27 the scripts keep: the nodes of the docs are valid in
\* generate_embeddings.py, and every indexed node is in
\* generate_embeddings_openshift.py
C27_DocsNodesAreValid ==
    run.pc = "runbooks" => \A i \in 1..Len(run.good_nodes) : ValidNode(run.good_nodes[i])

C27_DocumentProcessorIndexesValidNodes ==
    (run.pc = "done" /\ UsesDocumentProcessor(run.script)) =>
        \A indexed \in run.indexed : \A i \in 1..Len(indexed) : ValidNode(indexed[i])

\* C28: in a run of generate_embeddings.py total-embedded-files is the number of
\* documents loaded from the docs plus the number loaded from the runbooks.
C28_TotalCountsDocsAndRunbooks ==
    GenerateEmbeddingsSaved =>
        run.total_embedded_files = Some(run.documents + run.runbook_documents)

\* The parts of C28 the scripts keep: generate_embeddings.py counts the docs,
\* generate_embeddings_openshift.py the docs and the runbooks
C28_TotalCountsDocs ==
    GenerateEmbeddingsSaved => run.total_embedded_files = Some(run.documents)

C28_DocumentProcessorCountsBoth ==
    (run.pc = "done" /\ UsesDocumentProcessor(run.script)) =>
        run.total_embedded_files = Some(run.documents + run.runbook_documents)

-----------------------------------------------------------------------------
(* Claims about get_file_title and ping_url *)

\* The position of the first newline of a file, or one past its end
FirstNewline(c) ==
    IF \E i \in 1..Len(c) : c[i] = "\n"
    THEN CHOOSE i \in 1..Len(c) : c[i] = "\n" /\ \A j \in 1..(i - 1) : c[j] # "\n"
    ELSE Len(c) + 1

\* The first line of the file is "# " followed by a title text
HasTitleLine(c) == FirstNewline(c) >= 3 /\ c[1] = "#" /\ c[2] = " "

\* The title text T of such a file
TitleText(c) == SubSeq(c, 3, FirstNewline(c) - 1)

\* A text without the "#" and " " characters it begins with
RECURSIVE WithoutLeadingMarkers(_)
WithoutLeadingMarkers(t) ==
    IF t # << >> /\ t[1] \in { "#", " " } THEN WithoutLeadingMarkers(Tail(t)) ELSE t

\* get_file_title has returned for a file that could be read
TitleReturned == title_call.state = "returned" /\ title_call.error = None

\* C15, as the claim states it: for a first line "# " followed by T, optionally
\* ended by a newline, get_file_title returns exactly T.
C15_ReturnsExactTitle ==
    (TitleReturned /\ HasTitleLine(title_call.content)) =>
        title_call.title = TitleText(title_call.content)

\* C15, amended: for a first line "# " followed by T, get_file_title returns T
\* without the "#" and " " characters T begins with: the trailing newline is
\* stripped and so is every leading "#" and " " of the line, not only the marker
\* and its separating space; the result is exactly T when T is empty or begins
\* with another character, and what follows its leading markers is unchanged.
C15_ReturnsTitleWithoutLeadingMarkers ==
    (TitleReturned /\ HasTitleLine(title_call.content)) =>
        LET T == TitleText(title_call.content)
        IN  /\ title_call.title = WithoutLeadingMarkers(T)
            /\ (T = << >> \/ T[1] \notin { "#", " " }) => title_call.title = T

C15_Witness ==
    /\ TitleReturned
    /\ title_call.content = << "#", " ", "T", "\n", "T" >>
    /\ title_call.title = << "T" >>

\* C16: when the open or the read of the file raises an exception (a missing
\* file, a permission, an encoding), get_file_title returns the empty string and
\* the exception does not leave it.
C16_UnreadableFileGivesEmptyTitle ==
    (title_call.state \in { "returned", "raised" } /\ title_call.error # None) =>
        /\ title_call.state = "returned"
        /\ title_call.title = << >>
        /\ title_call.raised = None

C16_Witness ==
    /\ title_call.state = "returned"
    /\ title_call.error = Some("UnicodeDecodeError")
    /\ title_call.content # << >>
    /\ title_call.title = << >>

\* ping_url has been called
PingCalled == ping_call.state \in { "returned", "raised" }

\* C17, as the claim states it: ping_url returns true if and only if the GET
\* completes with status code 200, returns false for any other status code and
\* for any exception of the request, and never raises.
C17_TrueIffStatus200NeverRaises ==
    PingCalled =>
        /\ ping_call.state = "returned"
        /\ ping_call.value <=>
               (ping_call.http.raises = None /\ ping_call.http.status_code = 200)

\* C17, amended: ping_url returns true if and only if the GET completes with
\* status code 200; any other status code, and any exception of the requests
\* family (RequestException or a subclass) raised by the request, yield false;
\* an exception of another class raised by the request is not caught and leaves
\* ping_url.
C17_TrueIffStatus200RaisesOutsideFamily ==
    PingCalled =>
        IF \E exc \in ping_call.http.raises : ~NetworkError(exc)
        THEN /\ ping_call.state = "raised"
             /\ ping_call.raised = ping_call.http.raises
        ELSE /\ ping_call.state = "returned"
             /\ ping_call.raised = None
             /\ ping_call.value <=>
                    (ping_call.http.raises = None /\ ping_call.http.status_code = 200)

C17_Witness ==
    /\ ping_call.state = "returned"
    /\ ping_call.http = Response(204)
    /\ ~ping_call.value

====
